---------------------------- MODULE Spec2Model ----------------------------
(***************************************************************************)
(* Model of src/server.js: a rewriting HTTP proxy with two entry points,   *)
(* POST /api/proxy (resource mode) and GET /proxy-page (page mode).        *)
(*                                                                         *)
(* Text is modelled as a sequence of tokens.  A token is a chunk of        *)
(* characters: every punctuation character the code looks at is a token    *)
(* of its own (":", "/", "?", "#", "=", "%", "&", " ", "'", the double     *)
(* quote, "(" and ")"), and a run of other characters ("example.com",      *)
(* "pic.png", "url") is one word token.  The concatenation of the tokens   *)
(* is the JavaScript string.                                               *)
(***************************************************************************)
EXTENDS Integers, Sequences, FiniteSets, TLC

DQ == "\""
SQ == "'"

(***************************************************************************)
(* Generic string helpers (String.prototype.startsWith / includes).        *)
(***************************************************************************)
StartsWith(s, p) ==
    /\ Len(s) >= Len(p)
    /\ \A i \in 1..Len(p) : s[i] = p[i]

Includes(s, p) ==
    \E k \in 0..(Len(s) - Len(p)) : \A i \in 1..Len(p) : s[k + i] = p[i]

Drop(s, n) == SubSeq(s, n + 1, Len(s))

\* index of the first token of s that lies in S, Len(s)+1 when there is none
FirstIn(s, S) ==
    IF \E i \in 1..Len(s) : s[i] \in S
    THEN CHOOSE i \in 1..Len(s) : s[i] \in S /\ \A j \in 1..(i - 1) : s[j] \notin S
    ELSE Len(s) + 1

(***************************************************************************)
(* encodeURIComponent / decodeURIComponent.  Word tokens consist of        *)
(* unreserved characters and are kept; each reserved character becomes     *)
(* "%" followed by its two hex digits (a word token).                      *)
(***************************************************************************)
PctCode(t) ==
    CASE t = ":" -> "3A"
      [] t = "/" -> "2F"
      [] t = "?" -> "3F"
      [] t = "#" -> "23"
      [] t = "=" -> "3D"
      [] t = "%" -> "25"
      [] t = "&" -> "26"
      [] t = " " -> "20"
      [] t = DQ  -> "22"
      [] t = "<" -> "3C"
      [] OTHER   -> ""

PctChar(h) ==
    CASE h = "3A" -> ":"
      [] h = "2F" -> "/"
      [] h = "3F" -> "?"
      [] h = "23" -> "#"
      [] h = "3D" -> "="
      [] h = "25" -> "%"
      [] h = "26" -> "&"
      [] h = "20" -> " "
      [] h = "22" -> DQ
      [] h = "3C" -> "<"
      [] OTHER   -> ""

RECURSIVE encodeURIComponent(_)
encodeURIComponent(s) ==
    IF s = <<>> THEN <<>>
    ELSE (IF PctCode(Head(s)) = "" THEN <<Head(s)>> ELSE <<"%", PctCode(Head(s))>>)
         \o encodeURIComponent(Tail(s))

RECURSIVE decodeURIComponent(_)
decodeURIComponent(s) ==
    IF s = <<>> THEN <<>>
    ELSE IF Head(s) = "%" /\ Len(s) >= 2 /\ PctChar(s[2]) # ""
         THEN <<PctChar(s[2])>> \o decodeURIComponent(Drop(s, 2))
         ELSE <<Head(s)>> \o decodeURIComponent(Tail(s))

(***************************************************************************)
(* The WHATWG URL parser behind `new URL(string)` and `new URL(url, base)`,*)
(* for references without userinfo, port or backslashes.  A parsed URL is  *)
(* a record; BadUrl stands for the TypeError the constructor throws.       *)
(***************************************************************************)
UrlPunct == {":", "/", "?", "#", "=", "%", "&", " ", DQ, SQ, "(", ")", "<"}
SpecialSchemes == {"http", "https", "ftp"}
ForbiddenHost == {" ", "<", "%", ":"}

BadUrl == [ok |-> FALSE]

\* leading and trailing spaces are stripped before parsing
RECURSIVE TrimSpace(_)
TrimSpace(s) ==
    IF s = <<>> THEN s
    ELSE IF Head(s) = " " THEN TrimSpace(Tail(s))
    ELSE IF s[Len(s)] = " " THEN TrimSpace(SubSeq(s, 1, Len(s) - 1))
    ELSE s

HasScheme(s) == Len(s) >= 2 /\ s[1] \notin UrlPunct /\ s[2] = ":"

RECURSIVE SkipSlashes(_)
SkipSlashes(s) == IF s # <<>> /\ Head(s) = "/" THEN SkipSlashes(Tail(s)) ELSE s

\* "/a/b" -> << <<"a">>, <<"b">> >>, "/" -> << <<>> >>, "a/b" likewise
RECURSIVE SplitSegs(_)
SplitSegs(q) ==
    IF FirstIn(q, {"/"}) > Len(q) THEN <<q>>
    ELSE <<SubSeq(q, 1, FirstIn(q, {"/"}) - 1)>> \o SplitSegs(Drop(q, FirstIn(q, {"/"})))

SplitPath(p) == SplitSegs(IF p # <<>> /\ Head(p) = "/" THEN Tail(p) ELSE p)

\* removal of "." and ".." segments; acc is the output so far
RECURSIVE DotSegs(_, _)
DotSegs(segs, acc) ==
    IF segs = <<>> THEN acc
    ELSE IF Head(segs) = <<"..">>
    THEN DotSegs(Tail(segs),
                 (IF acc = <<>> THEN acc ELSE SubSeq(acc, 1, Len(acc) - 1))
                 \o (IF Len(segs) = 1 THEN << <<>> >> ELSE <<>>))
    ELSE IF Head(segs) = <<".">>
    THEN DotSegs(Tail(segs), acc \o (IF Len(segs) = 1 THEN << <<>> >> ELSE <<>>))
    ELSE DotSegs(Tail(segs), Append(acc, Head(segs)))

RECURSIVE JoinPath(_)
JoinPath(segs) == IF segs = <<>> THEN <<>> ELSE <<"/">> \o Head(segs) \o JoinPath(Tail(segs))

\* path, query and fragment of s, what follows the host
FragAt(s) == FirstIn(s, {"#"})
BeforeFrag(s) == SubSeq(s, 1, FragAt(s) - 1)
QueryAt(s) == FirstIn(BeforeFrag(s), {"?"})
PathPart(s) == SubSeq(BeforeFrag(s), 1, QueryAt(s) - 1)
HasQuery(s) == QueryAt(s) <= Len(BeforeFrag(s))
Query(s) == Drop(BeforeFrag(s), QueryAt(s))
HasFrag(s) == FragAt(s) <= Len(s)
Frag(s) == Drop(s, FragAt(s))

SpecialUrl(scheme, host, rest) ==
    IF host = <<>> \/ \E i \in 1..Len(host) : host[i] \in ForbiddenHost
    THEN BadUrl
    ELSE [ok |-> TRUE, scheme |-> scheme, special |-> TRUE, host |-> host,
          path |-> DotSegs(SplitPath(PathPart(rest)), <<>>), opaque |-> <<>>,
          hasQuery |-> HasQuery(rest), query |-> Query(rest),
          hasFrag |-> HasFrag(rest), frag |-> Frag(rest)]

OpaqueUrl(scheme, rest) ==
    [ok |-> TRUE, scheme |-> scheme, special |-> FALSE, host |-> <<>>,
     path |-> <<>>, opaque |-> PathPart(rest),
     hasQuery |-> HasQuery(rest), query |-> Query(rest),
     hasFrag |-> HasFrag(rest), frag |-> Frag(rest)]

\* s is what follows the slashes after "scheme:": the host, then the rest
ParseAuthority(scheme, s) ==
    SpecialUrl(scheme,
               SubSeq(s, 1, FirstIn(s, {"/", "?", "#"}) - 1),
               Drop(s, FirstIn(s, {"/", "?", "#"}) - 1))

ParseTrimmed(s) ==
    IF ~HasScheme(s) THEN BadUrl
    ELSE IF s[1] \in SpecialSchemes THEN ParseAuthority(s[1], SkipSlashes(Drop(s, 2)))
    ELSE OpaqueUrl(s[1], Drop(s, 2))

\* new URL(string): no base
ParseUrl(str) == ParseTrimmed(TrimSpace(str))

\* rel, a reference without scheme, against the parsed base b
RelativeTo(rel, b) ==
    IF StartsWith(rel, <<"/", "/">>)
    THEN ParseAuthority(b.scheme, SkipSlashes(rel))
    ELSE IF rel # <<>> /\ Head(rel) = "/"
    THEN [b EXCEPT !.path = DotSegs(SplitPath(PathPart(rel)), <<>>),
                   !.hasQuery = HasQuery(rel), !.query = Query(rel),
                   !.hasFrag = HasFrag(rel), !.frag = Frag(rel)]
    ELSE IF PathPart(rel) = <<>>
    THEN [b EXCEPT !.hasQuery = IF HasQuery(rel) THEN TRUE ELSE @,
                   !.query = IF HasQuery(rel) THEN Query(rel) ELSE @,
                   !.hasFrag = HasFrag(rel), !.frag = Frag(rel)]
    ELSE [b EXCEPT !.path = DotSegs(SubSeq(@, 1, Len(@) - 1) \o SplitPath(PathPart(rel)),
                                    <<>>),
                   !.hasQuery = HasQuery(rel), !.query = Query(rel),
                   !.hasFrag = HasFrag(rel), !.frag = Frag(rel)]

\* a reference with the scheme of a special base and no "//" is relative to it
ParseAgainst(s, b) ==
    IF ~b.ok THEN BadUrl
    ELSE IF ~HasScheme(s) THEN RelativeTo(s, b)
    ELSE IF s[1] \in SpecialSchemes /\ s[1] = b.scheme
            /\ ~StartsWith(Drop(s, 2), <<"/", "/">>)
    THEN RelativeTo(Drop(s, 2), b)
    ELSE ParseTrimmed(s)

\* new URL(ref, base)
ParseUrlWithBase(ref, base) == ParseAgainst(TrimSpace(ref), ParseUrl(base))

\* URL.prototype.toString()
Serialize(u) ==
    <<u.scheme, ":">>
    \o (IF u.special THEN <<"/", "/">> \o u.host \o JoinPath(u.path) ELSE u.opaque)
    \o (IF u.hasQuery THEN <<"?">> \o u.query ELSE <<>>)
    \o (IF u.hasFrag THEN <<"#">> \o u.frag ELSE <<>>)

Protocol(u) == <<u.scheme, ":">>
Hostname(u) == u.host

(***************************************************************************)
(* src/server.js 231-264                                                   *)
(***************************************************************************)
\* faulty variant: catch { return '' }
ToStringOrEmpty(parsed, url) == IF parsed.ok THEN Serialize(parsed) ELSE <<>>

\* try { return parsed.toString() } catch { return url }
ToStringOr(parsed, url) == IF parsed.ok THEN Serialize(parsed) ELSE url

resolveUrl(url, base) == ToStringOr(ParseUrlWithBase(url, base), url)

HasHttpProtocol(url) ==
    IF url.ok THEN Protocol(url) \in {<<"http", ":">>, <<"https", ":">>} ELSE FALSE

isValidUrl(string) == HasHttpProtocol(ParseUrl(string))

blockedDomains == { <<"malware-site", ".", "com">>, <<"dangerous-site", ".", "net">> }

\* faulty variant: the hostname must equal a blocked domain
HostnameBlockedExact(urlObj) ==
    IF urlObj.ok THEN Hostname(urlObj) \in blockedDomains ELSE FALSE

HostnameBlocked(urlObj) ==
    IF urlObj.ok
    THEN \E domain \in blockedDomains : Includes(Hostname(urlObj), domain)
    ELSE FALSE

isBlockedUrl(url) == HostnameBlocked(ParseUrl(url))

(***************************************************************************)
(* src/server.js 220-229: processCss.  The regular expression              *)
(*   /url\s*\(\s*(['"]?)([^'")]+)\1\s*\)/gi                                *)
(* is matched over the token sequence as the backtracking matcher does.    *)
(***************************************************************************)
UrlWords == {"url", "URL", "Url"}
HttpWords == {"http", "https"}
ProxyPrefix == <<"/", "api", "/", "proxy", "?", "url", "=">>
PagePrefix == <<"/", "proxy-page", "?", "url", "=">>

RECURSIVE SpaceRun(_)
SpaceRun(s) == IF s # <<>> /\ Head(s) = " " THEN 1 + SpaceRun(Tail(s)) ELSE 0

NoMatch == [ok |-> FALSE]

\* \s*\) after the first f tokens closes the match
CssClose(s, quote, url, f) ==
    IF f + 1 <= Len(s) /\ s[f + 1] = ")"
    THEN [ok |-> TRUE, len |-> f + 1, quote |-> quote, url |-> url]
    ELSE NoMatch

\* s[c] is the opening quote, run the length of [^'")]+ after it
CssQuoted(s, c, run) ==
    IF run >= 1 /\ c + run + 1 <= Len(s) /\ s[c + run + 1] = s[c]
    THEN CssClose(s, <<s[c]>>, SubSeq(s, c + 1, c + run),
                  c + run + 1 + SpaceRun(Drop(s, c + run + 1)))
    ELSE NoMatch

\* no quote after the first b tokens, of which the last sp are spaces; run is
\* the length of [^'")]+, which takes the spaces before ")" too; when the
\* argument is nothing but spaces, \s* gives the last of them back
CssUnquoted(s, b, sp, run) ==
    IF run >= 1 THEN CssClose(s, <<>>, SubSeq(s, b + 1, b + run), b + run)
    ELSE IF sp > 0 THEN CssClose(s, <<>>, <<" ">>, b)
    ELSE NoMatch

CssArgument(s, b, sp) ==
    IF b + 1 <= Len(s) /\ s[b + 1] \in {SQ, DQ}
    THEN CssQuoted(s, b + 1, FirstIn(Drop(s, b + 1), {SQ, DQ, ")"}) - 1)
    ELSE CssUnquoted(s, b, sp, FirstIn(Drop(s, b), {SQ, DQ, ")"}) - 1)

\* "(" is token a + 1
CssParen(s, a) ==
    IF a + 1 > Len(s) \/ s[a + 1] # "(" THEN NoMatch
    ELSE CssArgument(s, a + 1 + SpaceRun(Drop(s, a + 1)), SpaceRun(Drop(s, a + 1)))

\* the match of the expression at the head of s: [ok, len, quote, url]
CssMatch(s) ==
    IF s = <<>> \/ Head(s) \notin UrlWords THEN NoMatch
    ELSE CssParen(s, 1 + SpaceRun(Tail(s)))

\* faulty variant: only data: arguments are kept
CssReplacementDataOnly(match, quote, url, baseUrl) ==
    IF StartsWith(url, <<"data", ":">>)
    THEN match
    ELSE <<"url", "(">> \o quote \o ProxyPrefix
         \o encodeURIComponent(resolveUrl(url, baseUrl)) \o quote \o <<")">>

\* the replacement function (222-228)
CssReplacement(match, quote, url, baseUrl) ==
    IF StartsWith(url, <<"data", ":">>) \/ (url # <<>> /\ url[1] \in HttpWords)
    THEN match
    ELSE <<"url", "(">> \o quote \o ProxyPrefix
         \o encodeURIComponent(resolveUrl(url, baseUrl)) \o quote \o <<")">>

RECURSIVE processCss(_, _)
RECURSIVE CssReplaceAt(_, _, _)
CssReplaceAt(css, m, baseUrl) ==
    IF m.ok
    THEN CssReplacement(SubSeq(css, 1, m.len), m.quote, m.url, baseUrl)
         \o processCss(Drop(css, m.len), baseUrl)
    ELSE <<Head(css)>> \o processCss(Tail(css), baseUrl)

processCss(css, baseUrl) ==
    IF css = <<>> THEN <<>> ELSE CssReplaceAt(css, CssMatch(css), baseUrl)

(***************************************************************************)
(* Documents.  cheerio.load() yields a tree with a head and a body; the    *)
(* model keeps the elements the selectors of the rewriters can see, in     *)
(* document order.  An element is [tag, rel, has, val, target]: `has`      *)
(* tells whether the resource attribute of the tag (href of a, link and    *)
(* base, src of img and script, action of form) is present, `val` is its   *)
(* value.  `text` is the character data of the body outside markup.        *)
(***************************************************************************)
El(tag, rel, has, val) ==
    [tag |-> tag, rel |-> rel, has |-> has, val |-> val, target |-> ""]

Doc(head, body, text) == [head |-> head, body |-> body, text |-> text]

AllEls(doc) == doc.head \o doc.body

HostOf(urlObj) == Protocol(urlObj) \o <<"/", "/">> \o urlObj.host
BaseHost(baseUrl) == HostOf(ParseUrl(baseUrl))

\* $(this).attr(name, prefix + encodeURIComponent(resolveUrl(value, baseUrl)))
\* where the selector matches, the value is not empty and the guard lets it pass
Rewrite(e, selected, skip, prefix, baseUrl) ==
    IF selected /\ e.has /\ e.val # <<>> /\ ~skip
    THEN [e EXCEPT !.val = prefix \o encodeURIComponent(resolveUrl(e.val, baseUrl))]
    ELSE e

(***************************************************************************)
(* src/server.js 143-217: processHtml (resource mode).  The five selector  *)
(* passes select by tag, so each element is touched by at most one of      *)
(* them: ResourceEach is what the passes together do to one element.       *)
(***************************************************************************)
ResourceAnchor(e, baseUrl) ==
    IF e.has /\ e.val # <<>>
    THEN [Rewrite(e, TRUE, FALSE, ProxyPrefix, baseUrl) EXCEPT !.target = "_parent"]
    ELSE e
ResourceImg(e, baseUrl) == Rewrite(e, TRUE, FALSE, ProxyPrefix, baseUrl)
ResourceLink(e, baseUrl) == Rewrite(e, e.rel = "stylesheet", FALSE, ProxyPrefix, baseUrl)
ResourceScript(e, baseUrl) == Rewrite(e, TRUE, FALSE, ProxyPrefix, baseUrl)
ResourceForm(e, baseUrl) == Rewrite(e, TRUE, FALSE, ProxyPrefix, baseUrl)

ResourceEach(e, baseUrl) ==
    CASE e.tag = "a"      -> ResourceAnchor(e, baseUrl)
      [] e.tag = "img"    -> ResourceImg(e, baseUrl)
      [] e.tag = "link"   -> ResourceLink(e, baseUrl)
      [] e.tag = "script" -> ResourceScript(e, baseUrl)
      [] e.tag = "form"   -> ResourceForm(e, baseUrl)
      [] OTHER            -> e

HelperScript == El("script", "proxy-helper", FALSE, <<>>)

\* the base element put at the head when the document has none (195-197)
BaseTag(html, baseUrl) ==
    IF \E i \in 1..Len(AllEls(html)) : AllEls(html)[i].tag = "base" THEN <<>>
    ELSE <<El("base", "", TRUE, BaseHost(baseUrl) \o <<"/">>)>>

processHtml(html, baseUrl) ==
    Doc(BaseTag(html, baseUrl)
          \o [i \in 1..Len(html.head) |-> ResourceEach(html.head[i], baseUrl)]
          \o <<HelperScript>>,
        [i \in 1..Len(html.body) |-> ResourceEach(html.body[i], baseUrl)],
        html.text)

(***************************************************************************)
(* src/server.js 349-418: processHtmlForFullPage (page mode)               *)
(***************************************************************************)
\* the navigation bar: the only resource-bearing element in it is the home link
proxyBar == <<El("a", "proxy-bar", TRUE, <<"/">>)>>

PageAnchor(e, baseUrl) ==
    Rewrite(e, TRUE,
            StartsWith(e.val, <<"javascript", ":">>) \/ StartsWith(e.val, <<"#">>),
            PagePrefix, baseUrl)
PageImg(e, baseUrl) == Rewrite(e, TRUE, StartsWith(e.val, <<"data", ":">>), ProxyPrefix, baseUrl)
PageLink(e, baseUrl) == Rewrite(e, e.rel = "stylesheet", FALSE, ProxyPrefix, baseUrl)
PageScript(e, baseUrl) == Rewrite(e, TRUE, FALSE, ProxyPrefix, baseUrl)
\* faulty variant: the form pass of processHtml, copied unchanged
PageFormAsResource(e, baseUrl) == Rewrite(e, TRUE, FALSE, ProxyPrefix, baseUrl)

PageForm(e, baseUrl) ==
    Rewrite(e, TRUE, StartsWith(e.val, <<"javascript", ":">>), PagePrefix, baseUrl)

PageEach(e, baseUrl) ==
    CASE e.tag = "a"      -> PageAnchor(e, baseUrl)
      [] e.tag = "img"    -> PageImg(e, baseUrl)
      [] e.tag = "link"   -> PageLink(e, baseUrl)
      [] e.tag = "script" -> PageScript(e, baseUrl)
      [] e.tag = "form"   -> PageForm(e, baseUrl)
      [] OTHER            -> e

processHtmlForFullPage(html, baseUrl) ==
    Doc([i \in 1..Len(html.head) |-> PageEach(html.head[i], baseUrl)],
        [i \in 1..(Len(html.body) + 1) |-> PageEach((proxyBar \o html.body)[i], baseUrl)],
        html.text)

(***************************************************************************)
(* Requests, upstream outcomes and responses.                              *)
(***************************************************************************)
EmptyDoc == Doc(<<>>, <<>>, <<>>)

Absent == "<absent>"            \* a body field that is undefined
NotAString == "<number>"        \* a JSON value that is no string

HtmlUtf8 == <<"text/html", ";", " ", "charset=utf-8">>
CssUtf8 == <<"text/css", ";", " ", "charset=utf-8">>
JsUtf8 == <<"application/javascript", ";", " ", "charset=utf-8">>

\* res.status(s).json({ success: false, error })
Json(status, error) ==
    [status |-> status, kind |-> "json", success |-> FALSE, error |-> error,
     contentType |-> <<"application/json">>, body |-> EmptyDoc, shows |-> <<>>,
     cache |-> "", frame |-> ""]

\* res.status(s).send(`<h1>...</h1> ... ${url} ...`)
ErrorPage(status, error, url) ==
    [status |-> status, kind |-> "page", success |-> FALSE, error |-> error,
     contentType |-> <<"text/html">>, body |-> EmptyDoc, shows |-> url,
     cache |-> "", frame |-> ""]

\* res.set({...}); res.send(data)
Content(contentType, data, cache, frame) ==
    [status |-> 200, kind |-> "content", success |-> TRUE, error |-> "",
     contentType |-> contentType, body |-> data, shows |-> <<>>,
     cache |-> cache, frame |-> frame]

\* Buffer.prototype.toString('utf-8'): a byte that is no UTF-8 becomes U+FFFD
Utf8(t) == IF t \in {"0x89", "0xFF"} THEN "U+FFFD" ELSE t
toStringUtf8(data) == [data EXCEPT !.text = [i \in 1..Len(@) |-> Utf8(@[i])]]

NoConfig == [method |-> "", url |-> <<>>, timeout |-> 0, maxRedirects |-> 0, validate |-> ""]
NoOutcome == [kind |-> "none", status |-> 0, contentType |-> <<>>, data |-> EmptyDoc,
              cause |-> "", code |-> ""]

(***************************************************************************)
(* src/server.js 36-140: app.post('/api/proxy')                            *)
(***************************************************************************)
toLowerCase(method) ==
    CASE method = "GET" -> "get" [] method = "POST" -> "post" [] OTHER -> method

\* faulty variant: no status rejects
validateStatusAny(status) == TRUE

\* validateStatus of the resource-mode request (75-77)
validateStatus(status) == status < 500

\* the catch block (118-139)
statusCode(code) ==
    IF code = "ENOTFOUND" THEN 404
    ELSE IF code = "ECONNREFUSED" THEN 503
    ELSE IF code = "ETIMEDOUT" THEN 408
    ELSE 500

errorMessage(code) ==
    IF code = "ENOTFOUND" THEN "site-not-found"
    ELSE IF code = "ECONNREFUSED" THEN "cannot-connect"
    ELSE IF code = "ETIMEDOUT" THEN "request-timed-out"
    ELSE "cannot-load-site"

PostProxyCatch(code) == Json(statusCode(code), errorMessage(code))

\* const { url, method = 'GET' } = req.body (38)
MethodOf(body) == IF body.method = Absent THEN "GET" ELSE body.method

\* the handler up to `await axios(config)` (36-80): what it sends and whether
\* it issues the fetch
PostProxyEntry(body) ==
    IF body.url = <<>> \/ ~isValidUrl(body.url)
    THEN [responses |-> <<Json(400, "invalid-url")>>, fetch |-> FALSE, config |-> NoConfig]
    ELSE IF isBlockedUrl(body.url)
    THEN [responses |-> <<Json(403, "blocked-url")>>, fetch |-> FALSE, config |-> NoConfig]
    ELSE IF MethodOf(body) = NotAString      \* method.toLowerCase is not a function
    THEN [responses |-> <<PostProxyCatch("")>>, fetch |-> FALSE, config |-> NoConfig]
    ELSE [responses |-> <<>>, fetch |-> TRUE,
          config |-> [method |-> toLowerCase(MethodOf(body)), url |-> body.url,
                      timeout |-> 30000, maxRedirects |-> 5,
                      validate |-> "validateStatus"]]

\* res.set({ 'Content-Type': ..., 'Cache-Control': ..., 'X-Frame-Options': ... }) and
\* res.send(processedData) (108-116)
PostProxySend(processedContentType, processedData) ==
    Content(processedContentType, processedData, "no-cache, no-store, must-revalidate",
            "ALLOWALL")

\* faulty variant: text/javascript is not looked for
PostProxyRouteOneScriptType(contentType, data, url) ==
    IF Includes(contentType, <<"text/html">>)
    THEN PostProxySend(HtmlUtf8, processHtml(toStringUtf8(data), url))
    ELSE IF Includes(contentType, <<"text/css">>)
    THEN PostProxySend(CssUtf8, [data EXCEPT !.text = processCss(toStringUtf8(data).text, url)])
    ELSE IF Includes(contentType, <<"application/javascript">>)
    THEN PostProxySend(JsUtf8, toStringUtf8(data))
    ELSE PostProxySend(contentType, data)

\* content routing of resource mode (83-116)
PostProxyRoute(contentType, data, url) ==
    IF Includes(contentType, <<"text/html">>)
    THEN PostProxySend(HtmlUtf8, processHtml(toStringUtf8(data), url))
    ELSE IF Includes(contentType, <<"text/css">>)
    THEN PostProxySend(CssUtf8, [data EXCEPT !.text = processCss(toStringUtf8(data).text, url)])
    ELSE IF Includes(contentType, <<"application/javascript">>)
            \/ Includes(contentType, <<"text/javascript">>)
    THEN PostProxySend(JsUtf8, toStringUtf8(data))
    ELSE PostProxySend(contentType, data)

\* the handler after the await (80-139)
PostProxyResume(body, outcome) ==
    IF outcome.kind = "response"
    THEN <<PostProxyRoute(outcome.contentType, outcome.data, body.url)>>
    ELSE <<PostProxyCatch(outcome.code)>>

(***************************************************************************)
(* src/server.js 267-346: app.get('/proxy-page')                           *)
(***************************************************************************)
\* faulty variant: the response to an invalid url is sent without `return`
ProxyPageEntryNoReturn(query) ==
    IF query.url = <<>>
    THEN [responses |-> <<ErrorPage(400, "url-required", <<>>)>>, fetch |-> FALSE,
          config |-> NoConfig]
    ELSE [responses |-> IF isValidUrl(query.url) THEN <<>>
                        ELSE <<ErrorPage(400, "invalid-url", query.url)>>,
          fetch |-> TRUE,
          config |-> [method |-> "GET", url |-> query.url, timeout |-> 30000,
                      maxRedirects |-> 5, validate |-> "default"]]

\* the handler up to `await axios(config)` (267-306)
ProxyPageEntry(query) ==
    IF query.url = <<>>
    THEN [responses |-> <<ErrorPage(400, "url-required", <<>>)>>, fetch |-> FALSE,
          config |-> NoConfig]
    ELSE IF ~isValidUrl(query.url)
    THEN [responses |-> <<ErrorPage(400, "invalid-url", query.url)>>, fetch |-> FALSE,
          config |-> NoConfig]
    ELSE [responses |-> <<>>, fetch |-> TRUE,
          config |-> [method |-> "GET", url |-> query.url, timeout |-> 30000,
                      maxRedirects |-> 5, validate |-> "default"]]

\* response.headers['content-type'] || 'text/html' (307)
PageContentType(header) == IF header = <<>> THEN <<"text/html">> ELSE header

\* content routing of page mode (309-327)
ProxyPageRoute(contentType, data, url) ==
    IF Includes(contentType, <<"text/html">>)
    THEN Content(HtmlUtf8, processHtmlForFullPage(toStringUtf8(data), url),
                 "no-cache", "ALLOWALL")
    ELSE Content(contentType, data, "", "")

\* the handler after the await (306-345)
ProxyPageResume(query, outcome) ==
    IF outcome.kind = "response"
    THEN <<ProxyPageRoute(PageContentType(outcome.contentType), outcome.data, query.url)>>
    ELSE <<ErrorPage(500, "connection-failed", query.url)>>

(***************************************************************************)
(* src/server.js 444-450: the handler of every request no route matches    *)
(***************************************************************************)
NotFoundHandler == <<Json(404, "resource-not-found")>>

\* the route express dispatches (method, path) to
Route(method, path) ==
    IF method = "POST" /\ path = <<"/", "api", "/", "proxy">> THEN "postProxy"
    ELSE IF method = "GET" /\ path = <<"/", "proxy-page">> THEN "proxyPage"
    ELSE "notFound"

(***************************************************************************)
(* axios: the outcome of the outbound request.  A transport failure        *)
(* rejects with the code of its cause; a response rejects, with            *)
(* ERR_BAD_REQUEST or ERR_BAD_RESPONSE, unless the configured              *)
(* validateStatus accepts its status, the default accepting 2xx only.      *)
(* Exceeding `timeout` rejects                                             *)
(* with ECONNABORTED; ETIMEDOUT is the code of a connect timeout of the    *)
(* socket.                                                                 *)
(***************************************************************************)
defaultValidateStatus(status) == status >= 200 /\ status < 300

ErrorCode(cause) ==
    CASE cause = "dns"            -> "ENOTFOUND"
      [] cause = "refused"        -> "ECONNREFUSED"
      [] cause = "deadline"       -> "ECONNABORTED"
      [] cause = "socket-timeout" -> "ETIMEDOUT"
      [] cause = "reset"          -> "ECONNRESET"
      [] cause = "redirects"      -> "ERR_FR_TOO_MANY_REDIRECTS"

Causes == {"dns", "refused", "deadline", "socket-timeout", "reset", "redirects"}

Accepts(config, status) ==
    IF config.validate = "validateStatus" THEN validateStatus(status)
    ELSE defaultValidateStatus(status)

axios(config, raw) ==
    IF raw.kind = "failure"
    THEN [NoOutcome EXCEPT !.kind = "error", !.cause = raw.cause, !.code = ErrorCode(raw.cause)]
    ELSE IF Accepts(config, raw.status)
    THEN [NoOutcome EXCEPT !.kind = "response", !.status = raw.status,
                           !.contentType = raw.contentType, !.data = raw.data]
    ELSE [NoOutcome EXCEPT !.kind = "error", !.status = raw.status, !.cause = "status",
                           !.code = IF raw.status >= 500 THEN "ERR_BAD_RESPONSE"
                                    ELSE IF raw.status >= 400 THEN "ERR_BAD_REQUEST"
                                    ELSE ""]

(***************************************************************************)
(* Inputs of the model.                                                    *)
(***************************************************************************)
MaxElems == 2       \* elements of a document given to the HTML rewriters
MaxCssUrls == 2     \* fragments of a stylesheet given to the CSS rewriter

PageUrl == <<"http", ":", "/", "/", "example.com", "/", "dir", "/", "p.html">>
SecureUrl == <<"https", ":", "/", "/", "example.com", "/">>
Bases == {PageUrl, SecureUrl}

RequestUrls ==
    { <<>>,                                                       \* no url
      <<"example.com">>,                                          \* no scheme
      <<"http", ":", "/", "/">>,                                  \* no host
      <<"ftp", ":", "/", "/", "example.com", "/", "f">>,
      PageUrl,
      SecureUrl,
      <<"http", ":", "/", "/", "malware-site", ".", "com", "/">>,
      <<"https", ":", "/", "/", "cdn", ".", "not", "dangerous-site", ".", "net", ".", "org",
        "/", "x">> }

BodyMethods == {Absent, "POST", NotAString}

ContentTypes ==
    { <<"text/html">>, HtmlUtf8, <<"text/css">>, <<"application/javascript">>,
      <<"text/javascript">>, <<"image/png">>, <<>> }

Statuses == {200, 304, 404, 500, 503}

SamplePage ==
    Doc(<<El("link", "stylesheet", TRUE, <<"s.css">>)>>,
        <<El("a", "", TRUE, <<"/", "page">>),
          El("a", "", TRUE, <<"#", "top">>),
          El("img", "", TRUE, <<"pic.png">>),
          El("form", "", TRUE, <<"/", "submit">>)>>,
        <<>>)
SampleCss ==
    Doc(<<>>, <<>>, <<"body{background:", "url", "(", SQ, "images", "/", "bg.png", SQ, ")", "}">>)
SampleScript == Doc(<<>>, <<>>, <<"alert(1)">>)
SampleImage == Doc(<<>>, <<>>, <<"0x89", "PNG", "0xFF">>)
Bodies == {SamplePage, SampleCss, SampleScript, SampleImage}

RawOutcomes ==
    [kind : {"failure"}, cause : Causes, status : {0}, contentType : {<<>>}, data : {EmptyDoc}]
    \cup
    [kind : {"http"}, cause : {""}, status : Statuses, contentType : ContentTypes, data : Bodies]

\* sequences over S of length 1..n
RECURSIVE SeqsUpTo(_, _)
SeqsUpTo(S, n) ==
    IF n = 0 THEN {}
    ELSE {<<e>> : e \in S} \cup {<<e>> \o t : e \in S, t \in SeqsUpTo(S, n - 1)}

Elems ==
    { El("a", "", TRUE, <<"/", "page">>),
      El("a", "", TRUE, <<"#", "top">>),
      El("a", "", TRUE, <<"javascript", ":", "void(0)">>),
      El("a", "", TRUE, <<"http", ":", "/", "/">>),                 \* does not resolve
      El("img", "", TRUE, <<"/", "/">>),                            \* does not resolve
      El("a", "", TRUE, <<>>),
      El("img", "", TRUE, <<"pic.png">>),
      El("img", "", TRUE, <<"data", ":", "image/gif;base64,R0">>),
      El("link", "stylesheet", TRUE, <<"..", "/", "css", "/", "s.css">>),
      El("link", "icon", TRUE, <<"fav.ico">>),
      El("script", "", TRUE, <<"/", "/", "cdn.net", "/", "x.js">>),
      El("form", "", TRUE, <<"/", "submit", "?", "a", "=", "b">>),
      El("form", "", TRUE, <<"javascript", ":", "go()">>),
      El("base", "", TRUE, <<"http", ":", "/", "/", "other.org", "/">>) }

HtmlInputs == {Doc(<<>>, b, <<>>) : b \in SeqsUpTo(Elems, MaxElems)}

\* A piece of a stylesheet: text, then (when fn is not empty) a url() with the
\* tokens between its name and its argument, the quotes and the argument
Piece(pre, fn, open, q1, arg, q2, close) ==
    [pre |-> pre, fn |-> fn, open |-> open, q1 |-> q1, arg |-> arg, q2 |-> q2,
     close |-> close]

CssPieces ==
    { Piece(<<"a{background:">>, <<"url">>, <<"(">>, <<SQ>>, <<"images", "/", "bg.png">>,
            <<SQ>>, <<")">>),
      Piece(<<>>, <<"url">>, <<"(">>, <<DQ>>, <<"data", ":", "image/png;base64,AA">>,
            <<DQ>>, <<")">>),
      Piece(<<";">>, <<"url">>, <<"(">>, <<>>, <<"http", ":", "/", "/", "cdn.net", "/", "a.png">>,
            <<>>, <<")">>),
      Piece(<<>>, <<"URL">>, <<" ", "(", " ">>, <<DQ>>, <<"pic.png">>, <<DQ>>, <<" ", ")">>),
      Piece(<<>>, <<"url">>, <<"(", " ">>, <<>>, <<"..", "/", "f.woff">>, <<>>, <<" ", ")">>),
      Piece(<<>>, <<"url">>, <<"(">>, <<>>,
            ProxyPrefix \o <<"http", "%", "3A", "%", "2F", "%", "2F", "example.com", "%", "2F",
                             "a.png">>,
            <<>>, <<")">>),
      Piece(<<>>, <<"url">>, <<"(">>, <<SQ>>, <<"a.png">>, <<DQ>>, <<")">>),
      Piece(<<"p{color:red}">>, <<>>, <<>>, <<>>, <<>>, <<>>, <<>>) }

Text(piece) ==
    piece.pre \o piece.fn \o piece.open \o piece.q1 \o piece.arg \o piece.q2 \o piece.close

RECURSIVE Stylesheet(_)
Stylesheet(pieces) ==
    IF pieces = <<>> THEN <<>> ELSE Text(Head(pieces)) \o Stylesheet(Tail(pieces))

CssInputs == SeqsUpTo(CssPieces, MaxCssUrls)

(***************************************************************************)
(* The server.  One request is in the handlers at a time: the handlers     *)
(* share no state, so the requests the event loop interleaves do not       *)
(* affect one another.                                                     *)
(*   req        the request being handled                                  *)
(*   pc         "idle", "routed" (dispatched to its handler), "awaiting"   *)
(*              (suspended at `await axios(config)`), "settled" (the       *)
(*              promise is settled), "done" (the handler returned)         *)
(*   config     the axios config of the outbound request                   *)
(*   fetches    outbound requests issued for req                           *)
(*   outcome    what axios settled with                                    *)
(*   responses  what the handler has sent for req                          *)
(* input, output and nav are the state of the rewriters run on their own.  *)
(***************************************************************************)
VARIABLES req, pc, config, fetches, outcome, responses, input, output, nav

vars == <<req, pc, config, fetches, outcome, responses, input, output, nav>>
server == <<req, pc, config, fetches, outcome, responses>>
rewriter == <<input, output, nav>>

NoRequest == [method |-> "", path |-> <<>>, url |-> <<>>, bodyMethod |-> Absent]

ServerIdle ==
    /\ req = NoRequest
    /\ pc = "idle"
    /\ config = NoConfig
    /\ fetches = 0
    /\ outcome = NoOutcome
    /\ responses = <<>>

RewriterIdle == input = <<>> /\ output = <<>> /\ nav = <<>>

Init == ServerIdle /\ RewriterIdle

Receive(r) ==
    /\ pc \in {"idle", "done"}
    /\ req' = r
    /\ pc' = "routed"
    /\ config' = NoConfig
    /\ fetches' = 0
    /\ outcome' = NoOutcome
    /\ responses' = <<>>
    /\ UNCHANGED rewriter

\* a client sends a request
ClientRequest ==
    \E m \in {"GET", "POST"}, p \in {<<"/", "api", "/", "proxy">>, <<"/", "proxy-page">>},
       u \in RequestUrls, bm \in BodyMethods :
        /\ (bm # Absent) => (m = "POST" /\ p = <<"/", "api", "/", "proxy">>)
        /\ Receive([method |-> m, path |-> p, url |-> u, bodyMethod |-> bm])

\* the browser requests a URL a rewriter put into the document it was sent
Followable(e) ==
    /\ e.tag \in {"a", "img", "link", "script", "form"}
    /\ e.has
    /\ StartsWith(e.val, ProxyPrefix) \/ StartsWith(e.val, PagePrefix)

\* GET of a URL of this origin; express decodes req.query.url
GetRequest(val) ==
    [method |-> "GET",
     path |-> SubSeq(val, 1, FirstIn(val, {"?"}) - 1),
     url |-> decodeURIComponent(Drop(val, FirstIn(val, {"="}))),
     bodyMethod |-> Absent]

BrowserFollow ==
    /\ pc = "done"
    /\ Len(responses) = 1
    /\ responses[1].kind = "content"
    /\ Includes(responses[1].contentType, <<"text/html">>)
    /\ \E k \in 1..Len(AllEls(responses[1].body)) :
          /\ Followable(AllEls(responses[1].body)[k])
          /\ Receive(GetRequest(AllEls(responses[1].body)[k].val))

\* a handler runs up to its first await or to its return
Enter(entry) ==
    /\ responses' = responses \o entry.responses
    /\ config' = entry.config
    /\ fetches' = IF entry.fetch THEN fetches + 1 ELSE fetches
    /\ pc' = IF entry.fetch THEN "awaiting" ELSE "done"
    /\ UNCHANGED <<req, outcome>>
    /\ UNCHANGED rewriter

PostProxy ==
    /\ pc = "routed"
    /\ Route(req.method, req.path) = "postProxy"
    /\ Enter(PostProxyEntry([url |-> req.url, method |-> req.bodyMethod]))

ProxyPage ==
    /\ pc = "routed"
    /\ Route(req.method, req.path) = "proxyPage"
    /\ Enter(ProxyPageEntry([url |-> req.url]))

NotFound ==
    /\ pc = "routed"
    /\ Route(req.method, req.path) = "notFound"
    /\ Enter([responses |-> NotFoundHandler, fetch |-> FALSE, config |-> NoConfig])

\* the outbound request ends: axios settles the promise
AxiosSettle ==
    /\ pc = "awaiting"
    /\ \E raw \in RawOutcomes : outcome' = axios(config, raw)
    /\ pc' = "settled"
    /\ UNCHANGED <<req, config, fetches, responses>>
    /\ UNCHANGED rewriter

Resume(sent) ==
    /\ responses' = responses \o sent
    /\ pc' = "done"
    /\ UNCHANGED <<req, config, fetches, outcome>>
    /\ UNCHANGED rewriter

PostProxyContinue ==
    /\ pc = "settled"
    /\ Route(req.method, req.path) = "postProxy"
    /\ Resume(PostProxyResume([url |-> req.url, method |-> req.bodyMethod], outcome))

ProxyPageContinue ==
    /\ pc = "settled"
    /\ Route(req.method, req.path) = "proxyPage"
    /\ Resume(ProxyPageResume([url |-> req.url], outcome))

Handle ==
    \/ PostProxy
    \/ ProxyPage
    \/ NotFound
    \/ AxiosSettle
    \/ PostProxyContinue
    \/ ProxyPageContinue

Next == ClientRequest \/ BrowserFollow \/ Handle

Spec == Init /\ [][Next]_vars

\* A step of a handler moves pc off routed, awaiting or settled, and under Next
\* no other step does.  Every such step is a callback the event loop runs, and
\* the outbound request ends by its response, its failure or its timeout
\* (62, 292), so a handler that can take a step eventually takes one.
HandlerStep ==
    /\ pc \in {"routed", "awaiting", "settled"}
    /\ pc' \in {"awaiting", "settled", "done"}
    /\ pc' # pc

FairSpec == Spec /\ WF_pc(HandlerStep)

(***************************************************************************)
(* The CSS rewriter on its own: a stylesheet, rewritten and rewritten      *)
(* again.                                                                  *)
(***************************************************************************)
InitCss ==
    /\ ServerIdle
    /\ input \in [pieces : CssInputs, base : Bases]
    /\ output = <<>>
    /\ nav = <<>>

CssRewrite ==
    /\ output = <<>>
    /\ output' = <<processCss(Stylesheet(input.pieces), input.base)>>
    /\ UNCHANGED <<input, nav>>
    /\ UNCHANGED server

CssRerun ==
    /\ Len(output) = 1
    /\ output' = Append(output, processCss(output[1], input.base))
    /\ UNCHANGED <<input, nav>>
    /\ UNCHANGED server

NextCss == CssRewrite \/ CssRerun

SpecCss == InitCss /\ [][NextCss]_vars

(***************************************************************************)
(* The HTML rewriters on their own: a document, rewritten in one of the    *)
(* modes, and a click on a link or a submission of a form of the result.   *)
(***************************************************************************)
InitHtml ==
    /\ ServerIdle
    /\ input \in [doc : HtmlInputs, base : Bases, mode : {"resource", "page"}]
    /\ output = <<>>
    /\ nav = <<>>

HtmlRewriteResource ==
    /\ output = <<>>
    /\ input.mode = "resource"
    /\ output' = <<processHtml(input.doc, input.base)>>
    /\ UNCHANGED <<input, nav>>
    /\ UNCHANGED server

HtmlRewritePage ==
    /\ output = <<>>
    /\ input.mode = "page"
    /\ output' = <<processHtmlForFullPage(input.doc, input.base)>>
    /\ UNCHANGED <<input, nav>>
    /\ UNCHANGED server

\* the browser navigates: a link or form whose target is a fragment, a script
\* or empty requests nothing
Navigates(e) ==
    /\ e.tag \in {"a", "form"}
    /\ e.has
    /\ e.val # <<>>
    /\ ~StartsWith(e.val, <<"#">>)
    /\ ~StartsWith(e.val, <<"javascript", ":">>)

Click ==
    /\ Len(output) = 1
    /\ nav = <<>>
    /\ \E k \in 1..Len(AllEls(output[1])) :
          /\ Navigates(AllEls(output[1])[k])
          /\ nav' = AllEls(output[1])[k].val
    /\ UNCHANGED <<input, output>>
    /\ UNCHANGED server

NextHtml == HtmlRewriteResource \/ HtmlRewritePage \/ Click

SpecHtml == InitHtml /\ [][NextHtml]_vars

(***************************************************************************)
(* Properties.                                                             *)
(***************************************************************************)
ApiProxy == <<"/", "api", "/", "proxy">>
Handler == Route(req.method, req.path)

\* the request urls by what is wrong with them, told apart by hand
MissingOrInvalid ==
    { <<>>, <<"example.com">>, <<"http", ":", "/", "/">>,
      <<"ftp", ":", "/", "/", "example.com", "/", "f">> }
Blocklisted ==
    { <<"http", ":", "/", "/", "malware-site", ".", "com", "/">>,
      <<"https", ":", "/", "/", "cdn", ".", "not", "dangerous-site", ".", "net", ".", "org",
        "/", "x">> }

IsJsonError(r, status) ==
    r.status = status /\ r.kind = "json" /\ r.success = FALSE /\ r.error # ""

\* C1: in resource mode a missing, unparseable or non-http(s) url is answered
\* with 400 and a blocklisted hostname with 403, both as {success:false,error},
\* and no outbound request is issued for either.
C1_ResourceModeRejectsBeforeFetch ==
    (Handler = "postProxy" /\ pc \notin {"idle", "routed"}) =>
        /\ req.url \in MissingOrInvalid =>
              /\ fetches = 0 /\ pc = "done" /\ config = NoConfig
              /\ Len(responses) = 1 /\ IsJsonError(responses[1], 400)
        /\ req.url \in Blocklisted =>
              /\ fetches = 0 /\ pc = "done" /\ config = NoConfig
              /\ Len(responses) = 1 /\ IsJsonError(responses[1], 403)

C1_Witness ==
    /\ Handler = "postProxy" /\ pc = "done" /\ fetches = 0
    /\ Includes(req.url, <<"not", "dangerous-site">>)
    /\ responses[1].status = 403

\* C2: in page mode a valid url with a blocklisted hostname is refused before
\* any outbound request, with an HTML error page of status 403 showing the url.
C2_PageModeRefusesBlocked ==
    (Handler = "proxyPage" /\ pc \notin {"idle", "routed"} /\ req.url \in Blocklisted) =>
        /\ fetches = 0
        /\ pc = "done"
        /\ Len(responses) = 1
        /\ responses[1].kind = "page" /\ responses[1].status = 403
        /\ responses[1].shows = req.url

\* C3: GET /api/proxy?url=U is answered as POST /api/proxy with {url: U,
\* method: 'GET'} is, and never by the not-found handler.
C3_GetIsServedAsPost ==
    (req.method = "GET" /\ req.path = ApiProxy /\ pc = "done") =>
        /\ responses # NotFoundHandler
        /\ PostProxyEntry([url |-> req.url, method |-> "GET"]).fetch => fetches = 1
        /\ ~PostProxyEntry([url |-> req.url, method |-> "GET"]).fetch =>
              responses = PostProxyEntry([url |-> req.url, method |-> "GET"]).responses

Answered == pc \in {"settled", "done"} /\ outcome.status # 0

\* C4 as stated: whatever the status of the upstream response, the fetch yields
\* a response that goes on to content routing.
C4_NoStatusIsAFailure ==
    Answered => /\ outcome.kind = "response"
                /\ pc = "done" => responses[1].kind = "content"

\* C4 as amended: in resource mode the statuses below 500 yield a response that
\* goes on to content routing and the others fail the fetch, which is answered
\* with the JSON error of status 500; in page mode the 2xx statuses yield a
\* response and the others fail the fetch, answered with the error page of
\* status 500.
C4_StatusDecidesFailure ==
    Answered =>
        /\ Handler = "postProxy" => (outcome.kind = "response" <=> outcome.status < 500)
        /\ Handler = "proxyPage" =>
              (outcome.kind = "response" <=> (outcome.status >= 200 /\ outcome.status < 300))
        /\ outcome.kind \in {"response", "error"}
        /\ pc = "done" =>
              /\ Len(responses) = 1
              /\ outcome.kind = "response" =>
                    responses[1].kind = "content" /\ responses[1].status = 200
              /\ outcome.kind = "error" =>
                    /\ responses[1].status = 500
                    /\ responses[1].kind = IF Handler = "postProxy" THEN "json" ELSE "page"

C4_Witness ==
    /\ Handler = "postProxy" /\ pc = "done"
    /\ outcome.status = 503 /\ outcome.kind = "error"
    /\ IsJsonError(responses[1], 500)

\* C5: in resource mode a DNS failure is answered with 404, a refused
\* connection with 503, the fetch exceeding its 30 s deadline with 408 and any
\* other failure with 500, each as {success:false,error}.
C5_FailureStatus ==
    (Handler = "postProxy" /\ pc = "done" /\ outcome.kind = "error"
     /\ outcome.cause \in Causes \ {"socket-timeout"}) =>
        /\ Len(responses) = 1
        /\ IsJsonError(responses[1],
                       CASE outcome.cause = "dns"      -> 404
                         [] outcome.cause = "refused"  -> 503
                         [] outcome.cause = "deadline" -> 408
                         [] OTHER                      -> 500)

Routed(handler) == Handler = handler /\ pc = "done" /\ outcome.kind = "response"

\* the branches of resource mode, in their order
C6_ResourceBranches ==
    Routed("postProxy") =>
        /\ Len(responses) = 1
        /\ IF Includes(outcome.contentType, <<"text/html">>)
           THEN /\ responses[1].contentType = HtmlUtf8
                /\ responses[1].body = processHtml(toStringUtf8(outcome.data), req.url)
           ELSE IF Includes(outcome.contentType, <<"text/css">>)
           THEN /\ responses[1].contentType = CssUtf8
                /\ responses[1].body.text =
                       processCss(toStringUtf8(outcome.data).text, req.url)
           ELSE IF \/ Includes(outcome.contentType, <<"application/javascript">>)
                   \/ Includes(outcome.contentType, <<"text/javascript">>)
           THEN /\ responses[1].contentType = JsUtf8
                /\ responses[1].body = toStringUtf8(outcome.data)
           ELSE /\ responses[1].contentType = outcome.contentType
                /\ responses[1].body = outcome.data

\* C6 as stated: the branch is chosen by the content-type header alone, html,
\* css, script, other in this order; in page mode every response whose
\* content-type does not contain text/html, a missing one included, is passed
\* through with its bytes and its content-type unchanged.
C6_RoutingByContentType ==
    /\ C6_ResourceBranches
    /\ (Routed("proxyPage") /\ ~Includes(outcome.contentType, <<"text/html">>)) =>
          /\ responses[1].contentType = outcome.contentType
          /\ responses[1].body = outcome.data

\* C6 as amended: as stated for resource mode; in page mode a missing or empty
\* content-type counts as text/html and the body is rewritten as HTML, every
\* other content-type without text/html is passed through unchanged.
C6_RoutingWithPageDefault ==
    /\ C6_ResourceBranches
    /\ Routed("proxyPage") =>
          /\ Len(responses) = 1
          /\ IF outcome.contentType = <<>> \/ Includes(outcome.contentType, <<"text/html">>)
             THEN /\ responses[1].contentType = HtmlUtf8
                  /\ responses[1].body =
                         processHtmlForFullPage(toStringUtf8(outcome.data), req.url)
             ELSE /\ responses[1].contentType = outcome.contentType
                  /\ responses[1].body = outcome.data

C6_Witness ==
    /\ Routed("proxyPage")
    /\ outcome.contentType = <<>>
    /\ outcome.data = SampleImage
    /\ responses[1].contentType = HtmlUtf8
    /\ responses[1].body # outcome.data

\* what the pieces of the stylesheet are to become
IsUrl(piece) == piece.fn # <<>> /\ piece.q1 = piece.q2
Kept(piece) ==
    \/ ~IsUrl(piece)
    \/ StartsWith(piece.arg, <<"data", ":">>)
    \/ piece.arg[1] \in {"http", "https"}

Rewritten(piece, base) ==
    IF Kept(piece) THEN Text(piece)
    ELSE piece.pre \o <<"url", "(">> \o piece.q1 \o ProxyPrefix
         \o encodeURIComponent(resolveUrl(piece.arg, base)) \o piece.q1 \o <<")">>

RECURSIVE RewrittenSheet(_, _)
RewrittenSheet(pieces, base) ==
    IF pieces = <<>> THEN <<>>
    ELSE Rewritten(Head(pieces), base) \o RewrittenSheet(Tail(pieces), base)

In(i) == input.doc.body[i]
Out(i) == output[1].body[IF input.mode = "page" THEN i + 1 ELSE i]
Body == 1..Len(input.doc.body)
Paged == input.mode = "page" /\ Len(output) = 1

Wraps(val, prefix, original) ==
    val = prefix \o encodeURIComponent(resolveUrl(original, input.base))

Script(val) == StartsWith(val, <<"javascript", ":">>)

PageRewrites(e) ==
    /\ e.has /\ e.val # <<>>
    /\ \/ e.tag = "a" /\ ~StartsWith(e.val, <<"#">>) /\ ~Script(e.val)
       \/ e.tag = "form" /\ ~Script(e.val)
       \/ e.tag = "img" /\ ~StartsWith(e.val, <<"data", ":">>)
       \/ e.tag = "link" /\ e.rel = "stylesheet"
       \/ e.tag = "script"

PageTarget(e) == IF e.tag \in {"a", "form"} THEN PagePrefix ELSE ProxyPrefix

Malformed == { <<"http", ":", "/", "/">>, <<"/", "/">> }

ResourceRewrites(e) ==
    /\ e.has /\ e.val # <<>>
    /\ \/ e.tag \in {"a", "img", "script", "form"}
       \/ e.tag = "link" /\ e.rel = "stylesheet"

Rewrites(e) == IF input.mode = "page" THEN PageRewrites(e) ELSE ResourceRewrites(e)
Target(e) == IF input.mode = "page" THEN PageTarget(e) ELSE ProxyPrefix

Unresolved(e) == Rewrites(e) /\ e.val \in Malformed

\* the rewrite went through and rewrote every other attribute it is to rewrite
OthersRewritten ==
    /\ Len(output[1].body) = Len(input.doc.body) + (IF input.mode = "page" THEN 1 ELSE 0)
    /\ \A j \in Body :
          (Rewrites(In(j)) /\ ~Unresolved(In(j))) =>
              /\ StartsWith(Out(j).val, Target(In(j)))
              /\ Out(j).val # In(j).val

\* C9 as stated: an attribute whose value does not resolve keeps its value, and
\* the other attributes are rewritten all the same.
C9_UnresolvedIsLeftAlone ==
    Len(output) = 1 =>
        /\ \A i \in Body : Unresolved(In(i)) => Out(i).val = In(i).val
        /\ OthersRewritten

\* C9 as amended: an attribute whose value does not resolve is rewritten to the
\* proxy endpoint of its pass with the encoded value itself, unresolved, as the
\* url; the rewrite does not abort and the other attributes are rewritten all
\* the same.
C9_UnresolvedIsWrappedAsIs ==
    Len(output) = 1 =>
        /\ \A i \in Body :
              Unresolved(In(i)) =>
                  Out(i).val = Target(In(i)) \o encodeURIComponent(In(i).val)
        /\ OthersRewritten

C9_Witness ==
    /\ Len(output) = 1
    /\ Len(input.doc.body) = 2
    /\ Unresolved(In(1))
    /\ Rewrites(In(2)) /\ ~Unresolved(In(2))
    /\ Out(1).val = Target(In(1)) \o encodeURIComponent(In(1).val)

C10_OneFetchOneResponse ==
    /\ fetches <= 1
    /\ Len(responses) <= 1
    /\ pc = "done" => Len(responses) = 1
    /\ pc \in {"awaiting", "settled"} => (fetches = 1 /\ responses = <<>>)
    /\ pc = "settled" => Handler \in {"postProxy", "proxyPage"}
    /\ (pc = "done" /\ outcome.kind = "error") =>
          (fetches = 1 /\ responses[1].kind \in {"json", "page"})

\* C10: a request causes at most one outbound request, none after a failure,
\* and is eventually answered by exactly one response, which after a failed
\* fetch is the error response.
C10_ExactlyOneResponse ==
    /\ []C10_OneFetchOneResponse
    /\ (pc = "routed") ~> (pc = "done")

C10_Witness ==
    /\ pc = "done"
    /\ outcome.kind = "error" /\ outcome.cause = "refused"
    /\ fetches = 1
    /\ Len(responses) = 1

=============================================================================
